---- MODULE Spec2Model ----
(***************************************************************************)
(* Model of Caching::Cache and Caching::ConcurrentCache (src/cache.hpp,    *)
(* the revision with load_from_file, lines 247-552).                       *)
(*                                                                         *)
(* The cache is instantiated as Cache<Dependances<T1, T2>, Value> with     *)
(* sizeof(T1) = 1, sizeof(T2) = 1 and sizeof(Value) = 1.  A byte takes one *)
(* of ByteBase values; integers are laid out little-endian, as memcpy of   *)
(* the host representation does.  Keys on their own (equality, codec and   *)
(* hash) are taken in the shapes <int, int> and <int, double>.             *)
(***************************************************************************)
EXTENDS Integers, Sequences, FiniteSets, TLC

\* ------------------------------------------------------------------ bounds
ByteBase == 2
MaxOps == 3
NumInputKeys == 2
NumThreads == 2
MaxCalls == 3
MaxTrunc == 1
MaxFileLen == 8
MaxFairCalls == 2

\* ------------------------------------------------------------- data shapes
Byte == 0 .. (ByteBase - 1)

\* sizeof of every slot type of the key, in declared order
SlotSize == <<1, 1>>

\* sizeof(Value)
ValueSize == 1

RECURSIVE SizeSum(_)
SizeSum(j) == IF j = 0 THEN 0 ELSE SizeSum(j - 1) + SlotSize[j]

\* Dependances::BinSize: size += sizeof(args) over the slots
BinSize == SizeSum(Len(SlotSize))

\* load_from_file: key_val_size = Key::BinSize + sizeof(Value)
key_val_size == BinSize + ValueSize

SlotValues(j) == 0 .. (ByteBase ^ SlotSize[j] - 1)
Keys == SlotValues(1) \X SlotValues(2)
Values == 0 .. (ByteBase ^ ValueSize - 1)

\* the keys the callers pass to store: the NumInputKeys lowest
InputKeys == {k \in Keys : k[1] + ByteBase ^ SlotSize[1] * k[2] < NumInputKeys}

\* std::optional<Value>
None == <<>>
Some(v) == <<v>>

\* Value{}: the value operator[] inserts before the assignment
DefaultValue == 0

\* ------------------------------------------------------------ binary codec
\* memcpy(bytes, &val, sizeof(val)) / std::bit_cast of an integer of w bytes
to_bytes(v, w) == [i \in 1 .. w |-> (v \div (ByteBase ^ (i - 1))) % ByteBase]

RECURSIVE from_bytes(_)
\* memcpy(&val, bytes, sizeof(val))
from_bytes(b) ==
    IF Len(b) = 0 THEN 0
    ELSE b[1] + ByteBase * from_bytes(SubSeq(b, 2, Len(b)))

RECURSIVE SerializeSlots(_, _)
SerializeSlots(key, j) ==
    IF j = 0 THEN <<>>
    ELSE SerializeSlots(key, j - 1) \o to_bytes(key[j], SlotSize[j])

\* Dependances::serialize: every slot at offset, offset += sizeof(val)
Dependances_serialize(key) == SerializeSlots(key, Len(SlotSize))

\* Dependances::deserialize: every slot from offset, offset += sizeof(val)
Dependances_deserialize(bytes) ==
    [j \in 1 .. Len(SlotSize) |->
        from_bytes(SubSeq(bytes, SizeSum(j - 1) + 1, SizeSum(j)))]

\* Caching::serialize of a trivial Value
Value_serialize(v) == to_bytes(v, ValueSize)

\* Caching::deserialize<Value>
Value_deserialize(bytes) == from_bytes(bytes)

\* --------------------------------------------------------------- the table
EmptyMap == [k \in {} |-> 0]

\* map[k] = v on a std::unordered_map, as one step
MapPut(map, k, v) == [x \in (DOMAIN map) \cup {k} |-> IF x = k THEN v ELSE map[x]]

\* an operator[] that starts the table afresh when it inserts
MapIndex_afresh(map, k) ==
    IF k \in DOMAIN map THEN map ELSE MapPut(EmptyMap, k, DefaultValue)

\* storage[deps]: operator[] finds the entry or inserts a value-initialized one
MapIndex(map, k) == IF k \in DOMAIN map THEN map ELSE MapPut(map, k, DefaultValue)

\* an assignment that is lost
MapAssign_lost(map, k, v) == map

\* ... = std::forward<V>(value): the assignment to the entry operator[] gave
MapAssign(map, k, v) == [map EXCEPT ![k] = v]

\* a load that finds nothing
Cache_load_absent(map, key) == None

\* Cache::load
Cache_load(map, key) == IF key \in DOMAIN map THEN Some(map[key]) ELSE None

\* a store that keeps the entry it finds (insert-only)
Cache_store_emplace(map, key, value) ==
    IF key \in DOMAIN map THEN map ELSE MapPut(map, key, value)

\* Cache::store
Cache_store(map, key, value) == MapAssign(MapIndex(map, key), key, value)

\* ------------------------------------------------------------- persistence
RECURSIVE Perms(_)
\* the iteration orders of an unordered_map over the key set S
Perms(S) ==
    IF S = {} THEN {<<>>}
    ELSE UNION {{<<x>> \o p : p \in Perms(S \ {x})} : x \in S}

RECURSIVE SerializeIn(_, _)
SerializeIn(map, order) ==
    IF Len(order) = 0 THEN <<>>
    ELSE Dependances_serialize(order[1]) \o Value_serialize(map[order[1]])
         \o SerializeIn(map, Tail(order))

\* Cache::serialize, the table iterated in `order`
Cache_serialize(map, order) == SerializeIn(map, order)

\* the byte at offset o (from 0) of the buffer `data`; a read at or past the
\* end of the buffer yields whatever lies behind it in memory
ReadByte(data, garbage, o) ==
    IF o < Len(data) THEN data[o + 1] ELSE garbage[o - Len(data) + 1]

ReadSpan(data, garbage, from, n) ==
    [i \in 1 .. n |-> ReadByte(data, garbage, from + i - 1)]

\* ptr += bytes.size() / cached_count (a division by zero that does not trap
\* leaves the loop after its first pass, whatever it yields)
PtrStep(data, cached_count) ==
    IF cached_count = 0 THEN 0 ELSE Len(data) \div cached_count

\* the bound of the loop in Cache::deserialize: i <= cached_count
LoopBound(cached_count) == cached_count + 1

RECURSIVE DeserializeFrom(_, _, _, _, _)
DeserializeFrom(data, garbage, cached_count, i, map) ==
    IF i >= LoopBound(cached_count) THEN map
    ELSE LET ptr == i * PtrStep(data, cached_count)
             key == Dependances_deserialize(ReadSpan(data, garbage, ptr, BinSize))
             value == Value_deserialize(
                          ReadSpan(data, garbage, ptr + BinSize, ValueSize))
         IN  DeserializeFrom(data, garbage, cached_count, i + 1,
                             MapPut(map, key, value))

\* Cache::deserialize
Cache_deserialize(data, garbage, cached_count) ==
    DeserializeFrom(data, garbage, cached_count, 0, EmptyMap)

\* one past the highest offset Cache::deserialize reads
ReadEnd(data, cached_count) ==
    (LoopBound(cached_count) - 1) * PtrStep(data, cached_count) + key_val_size


\* the tag strings of the two tagged instances of example.cpp
Tags == {"First", "Second"}

\* Cache::get_cache_file_name without a tag: "_cache", "_" + the type name of
\* every key slot, "__", the type name of Value (".bin" follows)
cache_file_stem == <<"_cache", "_c", "_c", "__", "c">>

\* a file name that leaves the tag out
get_cache_file_name_untagged(t) == cache_file_stem \o <<".bin">>

\* the file name of the instance tagged `t`
get_cache_file_name(t) == cache_file_stem \o <<t, ".bin">>

FileNames == {get_cache_file_name(t) : t \in Tags}

\* ---------------------------------------------------- keys of any shape
\* sizeof of a slot type, in bytes of the model
sizeof(ty) == IF ty = "double" THEN 2 ELSE 1

\* the key shapes: Dependances<int, int> and the Dependances<int, double> of
\* example.cpp
Shapes == {<<"int", "int">>, <<"int", "double">>}

\* the object representations of a slot type, each the integer its bytes spell
Reps(ty) == 0 .. (ByteBase ^ sizeof(ty) - 1)

KeysOf(shape) == {k \in Reps(shape[1]) \X Reps(shape[2]) : TRUE}

RECURSIVE OffsetOf(_, _)
\* offset += sizeof(val): the offset behind the first j slots
OffsetOf(shape, j) ==
    IF j = 0 THEN 0 ELSE OffsetOf(shape, j - 1) + sizeof(shape[j])

\* Dependances::BinSize of a shape
BinSizeOf(shape) == OffsetOf(shape, Len(shape))

BytesOf(shape) == [1 .. BinSizeOf(shape) -> Byte]

\* a serialize that writes the slots in reverse order
serialize_as_reversed(shape, key) ==
    to_bytes(key[2], sizeof(shape[2])) \o to_bytes(key[1], sizeof(shape[1]))

\* Dependances::serialize of a key of the shape: bytes is BinSize long and
\* every slot is copied to its offset
serialize_as(shape, key) ==
    [o \in 1 .. BinSizeOf(shape) |->
        LET j == CHOOSE i \in 1 .. Len(shape) :
                     OffsetOf(shape, i - 1) < o /\ o <= OffsetOf(shape, i)
        IN  to_bytes(key[j], sizeof(shape[j]))[o - OffsetOf(shape, j - 1)]]

\* a deserialize that reads every slot from the start of the bytes
deserialize_as_noOffset(shape, bytes) ==
    [j \in 1 .. Len(shape) |-> from_bytes(SubSeq(bytes, 1, sizeof(shape[j])))]

\* Dependances::deserialize of a key of the shape
deserialize_as(shape, bytes) ==
    [j \in 1 .. Len(shape) |->
        from_bytes(SubSeq(bytes, OffsetOf(shape, j - 1) + 1, OffsetOf(shape, j)))]

\* Cache::deserialize, one record: the key span, then the value span
RecordSplit(shape, rec) ==
    [key |-> deserialize_as(shape, SubSeq(rec, 1, BinSizeOf(shape))),
     value |-> Value_deserialize(
                   SubSeq(rec, BinSizeOf(shape) + 1,
                          BinSizeOf(shape) + ValueSize))]

\* the representations of a double: 0 is +0.0, 1 is -0.0, the highest is a
\* NaN, every other one a finite number of its own
NaNRep == ByteBase ^ sizeof("double") - 1
IsNaN(ty, r) == ty = "double" /\ r = NaNRep
IsZero(ty, r) == ty = "double" /\ r \in {0, 1}

\* operator== of one slot
SlotEq(ty, x, y) ==
    IF ty = "double"
    THEN /\ ~IsNaN(ty, x)
         /\ ~IsNaN(ty, y)
         /\ (x = y \/ (IsZero(ty, x) /\ IsZero(ty, y)))
    ELSE x = y

\* Dependances::operator==: this->vals == deps.vals
Dependances_eq(shape, a, b) ==
    \A j \in 1 .. Len(shape) : SlotEq(shape[j], a[j], b[j])

DecDigits == <<"0", "1", "2", "3", "4", "5", "6", "7", "8", "9">>

RECURSIVE dec(_)
dec(n) ==
    IF n < 10 THEN <<DecDigits[n + 1]>>
    ELSE dec(n \div 10) \o <<DecDigits[(n % 10) + 1]>>

\* the six decimals of "%f"
Fraction == <<".", "0", "0", "0", "0", "0", "0">>

\* std::to_string of a slot
to_string(ty, r) ==
    IF ty # "double" THEN dec(r)
    ELSE IF IsNaN(ty, r) THEN <<"n", "a", "n">>
    ELSE IF r = 0 THEN <<"0">> \o Fraction
    ELSE IF r = 1 THEN <<"-", "0">> \o Fraction
    ELSE dec(r - 1) \o Fraction

\* the bits of size_t
size_t_bits == 8
size_t_max == 2 ^ size_t_bits - 1

Alphabet == DecDigits \o <<".", "-", "n", "a">>
CharCode(c) == CHOOSE i \in 1 .. Len(Alphabet) : Alphabet[i] = c

RECURSIVE hash_string(_)
\* std::hash<std::string>: a multiplicative hash over the characters
hash_string(str) ==
    IF Len(str) = 0 THEN 7
    ELSE (hash_string(SubSeq(str, 1, Len(str) - 1)) * 31
              + CharCode(str[Len(str)])) % (2 ^ size_t_bits)

RECURSIVE Xor(_, _)
\* a ^ b on size_t
Xor(a, b) ==
    IF a = 0 THEN b
    ELSE IF b = 0 THEN a
    ELSE (((a % 2) + (b % 2)) % 2) + 2 * Xor(a \div 2, b \div 2)

RECURSIVE HashSlots(_, _, _)
HashSlots(shape, key, j) ==
    IF j = 0 THEN size_t_max
    ELSE Xor(HashSlots(shape, key, j - 1),
             hash_string(to_string(shape[j], key[j])))

\* std::hash<Dependances<T...>>::operator()
Dependances_hash(shape, key) == HashSlots(shape, key, Len(shape))

\* the entries of an unordered_map that a lookup of key k finds: those equal
\* to k with k's hash; an entry equal to k with another hash is found when
\* the two hashes meet in one bucket (`probe`)
umap_matches(tbl, shape, k, probe) ==
    {i \in 1 .. Len(tbl) :
        /\ Dependances_eq(shape, tbl[i].key, k)
        /\ (Dependances_hash(shape, tbl[i].key) = Dependances_hash(shape, k)
                \/ probe)}

FirstOf(S) == CHOOSE i \in S : \A j \in S : i <= j

\* Cache::load on an unordered_map of keys of the shape
umap_load(tbl, shape, k, probe) ==
    LET m == umap_matches(tbl, shape, k, probe)
    IN  IF m = {} THEN None ELSE Some(tbl[FirstOf(m)].val)

\* Cache::store on an unordered_map of keys of the shape
umap_store(tbl, shape, k, v, probe) ==
    LET m == umap_matches(tbl, shape, k, probe)
    IN  IF m = {} THEN Append(tbl, [key |-> k, val |-> v])
        ELSE [tbl EXCEPT ![FirstOf(m)].val = v]

\* ------------------------------------------------------------------- state
VARIABLES
    fs,          \* file name -> [exists, bytes, written]; written: the bytes
                 \* the last teardown wrote (history)
    perm,        \* how the files may be opened: "rw", "wo" (not for reading)
                 \* or "ro" (not for writing)
    state,       \* of the instance: Uninitialized, Ready, Closed, Faulted
    tag,         \* the tag of the instance
    storage,     \* Cache::storage
    ld,          \* what load_from_file of the instance did (history)
    stored,      \* key -> the values stored under it through this instance,
                 \* in the order of the calls (history)
    prev,        \* the instance torn down before this one (history)
    tornDown,    \* the tags of the instances torn down so far (history)
    nops,        \* the constructions and store calls made so far
    \* ConcurrentCache
    mtx,         \* ConcurrentCache::mtx: the threads that hold it exclusively
                 \* and those that hold it shared
    thr,         \* thread -> where it is in its call, the arguments, and what
                 \* its load read
    passed,      \* key -> the values passed to store calls so far (history)
    seq,         \* the table of the stores in the order they took effect
                 \* (history)
    ncalls,      \* the calls made so far
    avail,       \* the "stores may occur" flag of the ConcurrentCache: TRUE,
                 \* loads take the lock; FALSE, loads go without it
    snap,        \* the table when the flag was last set to FALSE (history)
    \* keys on their own
    shape,       \* the slot types of the keys at hand
    ka, kb,      \* two keys of the shape
    buf,         \* BinSize bytes
    probe,       \* whether two different hashes meet in one bucket
    cpc,         \* how far the keys have been put through the operations
    res,         \* what the operations gave
    tbl          \* an unordered_map keyed by the shape: its entries

pvars == <<fs, perm, state, tag, storage, ld, stored, prev, tornDown, nops>>
kvars == <<shape, ka, kb, buf, probe, cpc, res, tbl>>
cvars == <<mtx, thr, passed, seq, ncalls, avail, snap, kvars>>
vars == <<pvars, cvars>>

Threads == 1 .. NumThreads
Idle == [pc |-> "idle", key |-> <<>>, val |-> 0, ret |-> None, lin |-> None,
         flag |-> TRUE]

NoOut == [sa |-> <<>>, sb |-> <<>>, da |-> <<>>, dbuf |-> <<>>, sbuf |-> <<>>,
          ha |-> 0, hb |-> 0, la |-> None, lb |-> None]

\* no key is at hand
NoKeys ==
    /\ shape = <<>>
    /\ ka = <<>>
    /\ kb = <<>>
    /\ buf = <<>>
    /\ probe = FALSE
    /\ cpc = "none"
    /\ res = NoOut
    /\ tbl = <<>>

InitThreads ==
    /\ NoKeys
    /\ mtx = [excl |-> {}, shared |-> {}]
    /\ thr = [t \in Threads |-> Idle]
    /\ passed = [k \in InputKeys |-> {}]
    /\ seq = EmptyMap
    /\ ncalls = 0
    /\ avail = TRUE
    /\ snap = EmptyMap

NoFile == [exists |-> FALSE, bytes |-> <<>>, written |-> <<>>]
NoLoad == [opened |-> FALSE, len |-> 0, reads |-> 0, steps |-> 0, step |-> 0,
           readEnd |-> 0, divByZero |-> FALSE, loaded |-> EmptyMap]
NoPrev == [tag |-> "", fresh |-> FALSE, stored |-> EmptyMap, dumped |-> FALSE]

\* key -> the last value stored under it, of a history h of store calls
LastOf(h) == [k \in DOMAIN h |-> h[k][Len(h[k])]]

Init ==
    /\ fs = [name \in FileNames |-> NoFile]
    /\ perm \in {"rw", "wo", "ro"}
    /\ state = "Uninitialized"
    /\ tag = ""
    /\ storage = EmptyMap
    /\ ld = NoLoad
    /\ stored = EmptyMap
    /\ prev = NoPrev
    /\ tornDown = {}
    /\ nops = 0
    /\ InitThreads

\* ---------------------------------------------------------------- actions
\* std::ifstream file_dump{name, binary | ate}; file_dump.good()
CanRead(f) == f.exists /\ perm # "wo"

\* an open for writing that never fails
CanWrite_always(f) == TRUE

\* std::fstream file_dump(name, out | binary) opens (and truncates)
CanWrite(f) == perm # "ro"

\* a length test that lets the empty file through
EmptyDump_negative(len) == len < 0

\* load_from_file: if (len <= 0) return
EmptyDump(len) == len <= 0

\* Cache::load_from_file of the instance tagged t: the set of its outcomes,
\* each the table it leaves, whether it faulted, and the history of the load
load_from_file(t) ==
    LET f == fs[get_cache_file_name(t)]
        len == Len(f.bytes)
        cached_count == len \div key_val_size
        info == [opened |-> TRUE, len |-> len, reads |-> 1,
                 steps |-> LoopBound(cached_count),
                 step |-> PtrStep(f.bytes, cached_count),
                 readEnd |-> ReadEnd(f.bytes, cached_count),
                 divByZero |-> (cached_count = 0),
                 loaded |-> EmptyMap]
    IN  IF ~CanRead(f)
        THEN {[faulted |-> FALSE, info |-> NoLoad]}
        ELSE IF EmptyDump(len)
        THEN {[faulted |-> FALSE, info |-> [NoLoad EXCEPT !.opened = TRUE]]}
        ELSE {[faulted |-> FALSE,
               info |-> [info EXCEPT !.loaded =
                            Cache_deserialize(f.bytes, garbage, cached_count)]] :
                 garbage \in [1 .. key_val_size -> Byte]}
             \cup
             \* a read past the end of the buffer, or the division by zero, traps
             (IF info.readEnd > len \/ info.divByZero
              THEN {[faulted |-> TRUE, info |-> info]} ELSE {})

\* Cache::Cache() of an instance tagged t (a new run of the program when the
\* instance before it was torn down or faulted)
Cache_ctor(t) ==
    /\ state \in {"Uninitialized", "Closed", "Faulted"}
    /\ nops < MaxOps
    /\ \E out \in load_from_file(t) :
          /\ state' = IF out.faulted THEN "Faulted" ELSE "Ready"
          /\ storage' = out.info.loaded
          /\ ld' = out.info
    /\ tag' = t
    /\ nops' = nops + 1
    /\ stored' = EmptyMap
    /\ UNCHANGED <<fs, perm, prev, tornDown, cvars>>

\* store(key, value) on the instance
Store(key, value) ==
    /\ state = "Ready"
    /\ nops < MaxOps
    /\ storage' = Cache_store(storage, key, value)
    /\ stored' = MapPut(stored, key,
                        (IF key \in DOMAIN stored THEN stored[key] ELSE <<>>)
                            \o <<value>>)
    /\ nops' = nops + 1
    /\ UNCHANGED <<fs, perm, state, tag, ld, prev, tornDown, cvars>>

\* an open for writing that keeps the content and writes behind it
OpenForOutput_append(bytes) == bytes

\* the content of a file just opened with std::ios::out | std::ios::binary:
\* the open truncates it
OpenForOutput(bytes) == <<>>

\* Cache::dump_to_file: the file after it, the table written in `order`
dump_to_file(f, order) ==
    LET data == Cache_serialize(storage, order)
    IN  IF CanWrite(f)
        THEN [exists |-> TRUE, bytes |-> OpenForOutput(f.bytes) \o data,
              written |-> data]
        ELSE f

\* Cache::~Cache()
Cache_dtor ==
    /\ state = "Ready"
    /\ \E order \in Perms(DOMAIN storage) :
          fs' = [fs EXCEPT ![get_cache_file_name(tag)] = dump_to_file(@, order)]
    /\ state' = "Closed"
    /\ prev' = [tag |-> tag, fresh |-> (ld.loaded = EmptyMap),
                stored |-> LastOf(stored), dumped |-> (perm # "ro")]
    /\ tornDown' = tornDown \cup {tag}
    /\ UNCHANGED <<perm, tag, storage, ld, stored, nops, cvars>>

\* between two runs the last byte of a cache file is cut off
Truncate(name) ==
    /\ state # "Ready"
    /\ fs[name].exists
    /\ Len(fs[name].bytes) > 0
    /\ Len(fs[name].written) - Len(fs[name].bytes) < MaxTrunc
    /\ fs' = [fs EXCEPT ![name].bytes = SubSeq(@, 1, Len(@) - 1)]
    /\ UNCHANGED <<perm, state, tag, storage, ld, stored, prev, tornDown, nops, cvars>>

\* between two runs the permissions of the cache files are changed
Chmod(p) ==
    /\ state \in {"Closed", "Faulted"}
    /\ p # perm
    /\ perm' = p
    /\ UNCHANGED <<fs, state, tag, storage, ld, stored, prev, tornDown, nops, cvars>>

Next ==
    \/ \E t \in Tags : Cache_ctor(t)
    \/ \E key \in InputKeys, value \in Values : Store(key, value)
    \/ Cache_dtor
    \/ \E name \in FileNames : Truncate(name)
    \/ \E p \in {"rw", "wo", "ro"} : Chmod(p)

Spec == Init /\ [][Next]_vars

\* --------------------------------------------------------- ConcurrentCache
\* a shared lock that does not wait for the exclusive holder
CanLockShared_always(m) == TRUE

\* std::shared_lock lk{mtx} can take the mutex
CanLockShared(m) == m.excl = {}

\* an exclusive lock that does not wait for the shared holders
CanLockUnique_noReaders(m) == m.excl = {}

\* std::unique_lock lk{mtx} can take the mutex
CanLockUnique(m) == m.excl = {} /\ m.shared = {}

\* the variables that a load or store on the ConcurrentCache leaves alone
cacheRest == <<fs, perm, state, tag, ld, stored, prev, tornDown, nops,
               avail, snap, kvars>>

\* ConcurrentCache::load(key) is called by thread t
load_call(t, key) ==
    /\ state = "Ready"
    /\ thr[t].pc = "idle"
    /\ ncalls < MaxCalls
    /\ thr' = [thr EXCEPT ![t] = [Idle EXCEPT !.pc = "load_lock", !.key = key]]
    /\ ncalls' = ncalls + 1
    /\ UNCHANGED <<storage, cacheRest, mtx, passed, seq>>

\* a load that goes on without the lock
load_lock_skipped(t) ==
    /\ thr[t].pc = "load_lock"
    /\ thr' = [thr EXCEPT ![t].pc = "load_read"]
    /\ UNCHANGED <<storage, cacheRest, mtx, passed, seq, ncalls>>

\* std::shared_lock lk{mtx}
load_lock(t) ==
    /\ thr[t].pc = "load_lock"
    /\ CanLockShared(mtx)
    /\ mtx' = [mtx EXCEPT !.shared = @ \cup {t}]
    /\ thr' = [thr EXCEPT ![t].pc = "load_read"]
    /\ UNCHANGED <<storage, cacheRest, passed, seq, ncalls>>

\* return Cache<Key, Value>::load(key)
load_read(t) ==
    /\ thr[t].pc = "load_read"
    /\ thr' = [thr EXCEPT ![t].pc = "load_unlock",
                          ![t].ret = Cache_load(storage, thr[t].key),
                          ![t].lin = Cache_load(seq, thr[t].key)]
    /\ UNCHANGED <<storage, cacheRest, mtx, passed, seq, ncalls>>

\* ~shared_lock, and the call returns
load_unlock(t) ==
    /\ thr[t].pc = "load_unlock"
    /\ mtx' = [mtx EXCEPT !.shared = @ \ {t}]
    /\ thr' = [thr EXCEPT ![t] = Idle]
    /\ UNCHANGED <<storage, cacheRest, passed, seq, ncalls>>

\* ConcurrentCache::store(deps, value) is called by thread t
store_call(t, key, value) ==
    /\ state = "Ready"
    /\ thr[t].pc = "idle"
    /\ ncalls < MaxCalls
    /\ thr' = [thr EXCEPT ![t] = [Idle EXCEPT !.pc = "store_lock",
                                              !.key = key, !.val = value]]
    /\ passed' = [passed EXCEPT ![key] = @ \cup {value}]
    /\ ncalls' = ncalls + 1
    /\ UNCHANGED <<storage, cacheRest, mtx, seq>>

\* std::unique_lock lk{mtx}
store_lock(t) ==
    /\ thr[t].pc = "store_lock"
    /\ CanLockUnique(mtx)
    /\ mtx' = [mtx EXCEPT !.excl = @ \cup {t}]
    /\ thr' = [thr EXCEPT ![t].pc = "store_index"]
    /\ UNCHANGED <<storage, cacheRest, passed, seq, ncalls>>

\* Cache::store, storage[deps]
store_index(t) ==
    /\ thr[t].pc = "store_index"
    /\ storage' = MapIndex(storage, thr[t].key)
    /\ thr' = [thr EXCEPT ![t].pc = "store_assign"]
    /\ UNCHANGED <<cacheRest, mtx, passed, seq, ncalls>>

\* Cache::store, ... = std::forward<V>(value)
store_assign(t) ==
    /\ thr[t].pc = "store_assign"
    /\ storage' = MapAssign(storage, thr[t].key, thr[t].val)
    /\ seq' = MapPut(seq, thr[t].key, thr[t].val)
    /\ thr' = [thr EXCEPT ![t].pc = "store_unlock"]
    /\ UNCHANGED <<cacheRest, mtx, passed, ncalls>>

\* a store that returns with the lock held
store_unlock_kept(t) ==
    /\ thr[t].pc = "store_unlock"
    /\ thr' = [thr EXCEPT ![t] = Idle]
    /\ UNCHANGED <<storage, cacheRest, mtx, passed, seq, ncalls>>

\* ~unique_lock, and the call returns
store_unlock(t) ==
    /\ thr[t].pc = "store_unlock"
    /\ mtx' = [mtx EXCEPT !.excl = @ \ {t}]
    /\ thr' = [thr EXCEPT ![t] = Idle]
    /\ UNCHANGED <<storage, cacheRest, passed, seq, ncalls>>

\* a ConcurrentCache constructed where there is no cache file
InitConc ==
    /\ fs = [name \in FileNames |-> NoFile]
    /\ perm = "rw"
    /\ state = "Ready"
    /\ tag = "First"
    /\ storage = EmptyMap
    /\ ld = NoLoad
    /\ stored = EmptyMap
    /\ prev = NoPrev
    /\ tornDown = {}
    /\ nops = 1
    /\ InitThreads

NextConc ==
    \/ \E t \in Threads, key \in InputKeys : load_call(t, key)
    \/ \E t \in Threads : load_lock(t)
    \/ \E t \in Threads : load_read(t)
    \/ \E t \in Threads : load_unlock(t)
    \/ \E t \in Threads, key \in InputKeys, value \in Values :
          store_call(t, key, value)
    \/ \E t \in Threads : store_lock(t)
    \/ \E t \in Threads : store_index(t)
    \/ \E t \in Threads : store_assign(t)
    \/ \E t \in Threads : store_unlock(t)

SpecConc == InitConc /\ [][NextConc]_vars

\* a step of thread t inside its call that waits for nothing
Running(t) ==
    \/ load_read(t)
    \/ load_unlock(t)
    \/ store_index(t)
    \/ store_assign(t)
    \/ store_unlock(t)

\* thread t takes the lock
Locks(t) == load_lock(t) \/ store_lock(t)

\* every thread inside a call keeps running, and a thread that can take the
\* lock again and again does take it
FairConc ==
    \A t \in Threads : WF_vars(Running(t)) /\ SF_vars(Locks(t))

\* the calls of the runs checked for progress
NextConcFair ==
    \/ \E t \in Threads, key \in InputKeys :
          ncalls < MaxFairCalls /\ load_call(t, key)
    \/ \E t \in Threads : load_lock(t)
    \/ \E t \in Threads : load_read(t)
    \/ \E t \in Threads : load_unlock(t)
    \/ \E t \in Threads, key \in InputKeys, value \in Values :
          ncalls < MaxFairCalls /\ store_call(t, key, value)
    \/ \E t \in Threads : store_lock(t)
    \/ \E t \in Threads : store_index(t)
    \/ \E t \in Threads : store_assign(t)
    \/ \E t \in Threads : store_unlock(t)

SpecConcFair == InitConc /\ [][NextConcFair]_vars /\ FairConc

\* ------------------------------------------- ConcurrentCache, the fast path
\* the variables of Cache that a call on the ConcurrentCache leaves alone
fileRest == <<fs, perm, state, tag, ld, stored, prev, tornDown, nops, kvars>>

\* ConcurrentCache::load_unprotected(key) is called by thread t
load_unprotected_call(t, key) ==
    /\ state = "Ready"
    /\ thr[t].pc = "idle"
    /\ ncalls < MaxCalls
    /\ thr' = [thr EXCEPT ![t] = [Idle EXCEPT !.pc = "fast_read", !.key = key]]
    /\ ncalls' = ncalls + 1
    /\ UNCHANGED <<storage, cacheRest, mtx, passed, seq>>

\* a thread is changing the table
Storing ==
    \E u \in Threads :
        thr[u].pc \in {"store_index", "store_assign", "ustore_index", "ustore_assign"}

\* a load_unprotected that waits until the lock is free
load_unprotected_read_waiting(t) ==
    /\ thr[t].pc = "fast_read"
    /\ CanLockShared(mtx)
    /\ thr' = [thr EXCEPT ![t].pc = "fast_ret",
                          ![t].ret = Cache_load(storage, thr[t].key),
                          ![t].lin = Cache_load(seq, thr[t].key)]
    /\ UNCHANGED <<storage, cacheRest, mtx, passed, seq, ncalls>>

\* load_unprotected: return Cache<Key, Value>::load(key); while a thread is
\* changing the table the read races with it and may return anything
load_unprotected_read(t) ==
    /\ thr[t].pc = "fast_read"
    /\ \E r \in (IF Storing THEN {None} \cup {Some(v) : v \in Values}
                           ELSE {Cache_load(storage, thr[t].key)}) :
          thr' = [thr EXCEPT ![t].pc = "fast_ret",
                             ![t].ret = r,
                             ![t].lin = Cache_load(seq, thr[t].key)]
    /\ UNCHANGED <<storage, cacheRest, mtx, passed, seq, ncalls>>

\* load_unprotected returns
load_unprotected_return(t) ==
    /\ thr[t].pc = "fast_ret"
    /\ thr' = [thr EXCEPT ![t] = Idle]
    /\ UNCHANGED <<storage, cacheRest, mtx, passed, seq, ncalls>>

\* load(key) of the ConcurrentCache with the flag: the path the flag selects
load_dispatch(t, key) ==
    \/ avail /\ load_call(t, key)
    \/ ~avail /\ load_unprotected_call(t, key)

\* a store is called or under way
StoreUnderWay ==
    \E t \in Threads :
        thr[t].pc \in {"store_lock", "store_index", "store_assign", "store_unlock"}

\* a load without the lock is under way, or the flag is being set to FALSE
FastPathUnderWay ==
    \E t \in Threads :
        \/ thr[t].pc \in {"fast_read", "fast_ret"}
        \/ thr[t].pc \in {"set_lock", "set_install", "set_unlock"} /\ ~thr[t].flag

\* set_stores_availability(b) is called by thread t; the caller sets the flag
\* to FALSE only when no store is called or under way
set_stores_availability_call(t, b) ==
    /\ state = "Ready"
    /\ thr[t].pc = "idle"
    /\ ncalls < MaxCalls
    /\ b \/ ~StoreUnderWay
    /\ thr' = [thr EXCEPT ![t] = [Idle EXCEPT !.pc = "set_lock", !.flag = b]]
    /\ ncalls' = ncalls + 1
    /\ UNCHANGED <<storage, cacheRest, mtx, passed, seq>>

\* set_stores_availability takes the lock exclusively
set_stores_availability_lock(t) ==
    /\ thr[t].pc = "set_lock"
    /\ CanLockUnique(mtx)
    /\ mtx' = [mtx EXCEPT !.excl = @ \cup {t}]
    /\ thr' = [thr EXCEPT ![t].pc = "set_install"]
    /\ UNCHANGED <<storage, cacheRest, passed, seq, ncalls>>

\* set_stores_availability installs the access path
set_stores_availability_install(t) ==
    /\ thr[t].pc = "set_install"
    /\ avail' = thr[t].flag
    /\ snap' = IF thr[t].flag THEN snap ELSE storage
    /\ thr' = [thr EXCEPT ![t].pc = "set_unlock"]
    /\ UNCHANGED <<storage, fileRest, mtx, passed, seq, ncalls>>

\* set_stores_availability releases the lock and returns
set_stores_availability_unlock(t) ==
    /\ thr[t].pc = "set_unlock"
    /\ mtx' = [mtx EXCEPT !.excl = @ \ {t}]
    /\ thr' = [thr EXCEPT ![t] = Idle]
    /\ UNCHANGED <<storage, cacheRest, passed, seq, ncalls>>

\* the callers store only while the flag is TRUE and no load goes without the
\* lock
NextSwitch ==
    \/ \E t \in Threads, key \in InputKeys : load_dispatch(t, key)
    \/ \E t \in Threads : load_lock(t)
    \/ \E t \in Threads : load_read(t)
    \/ \E t \in Threads : load_unlock(t)
    \/ \E t \in Threads : load_unprotected_read(t)
    \/ \E t \in Threads : load_unprotected_return(t)
    \/ \E t \in Threads, key \in InputKeys, value \in Values :
          avail /\ ~FastPathUnderWay /\ store_call(t, key, value)
    \/ \E t \in Threads : store_lock(t)
    \/ \E t \in Threads : store_index(t)
    \/ \E t \in Threads : store_assign(t)
    \/ \E t \in Threads : store_unlock(t)
    \/ \E t \in Threads, b \in BOOLEAN : set_stores_availability_call(t, b)
    \/ \E t \in Threads : set_stores_availability_lock(t)
    \/ \E t \in Threads : set_stores_availability_install(t)
    \/ \E t \in Threads : set_stores_availability_unlock(t)

SpecSwitch == InitConc /\ [][NextSwitch]_vars

\* ----------------------------------- ConcurrentCache, the unprotected calls
\* no thread but t is inside a call
AloneInCall(t) == \A u \in Threads : u # t => thr[u].pc = "idle"

\* a store_unprotected is under way
UnprotectedStoring ==
    \E u \in Threads : thr[u].pc \in {"ustore_index", "ustore_assign"}

\* ConcurrentCache::store_unprotected(deps, value) is called by thread t; its
\* callers have excluded every other call for its duration
store_unprotected_call(t, key, value) ==
    /\ state = "Ready"
    /\ thr[t].pc = "idle"
    /\ ncalls < MaxCalls
    /\ AloneInCall(t)
    /\ thr' = [thr EXCEPT ![t] = [Idle EXCEPT !.pc = "ustore_index",
                                              !.key = key, !.val = value]]
    /\ passed' = [passed EXCEPT ![key] = @ \cup {value}]
    /\ ncalls' = ncalls + 1
    /\ UNCHANGED <<storage, cacheRest, mtx, seq>>

\* store_unprotected: Cache::store, storage[deps]
store_unprotected_index(t) ==
    /\ thr[t].pc = "ustore_index"
    /\ storage' = MapIndex(storage, thr[t].key)
    /\ thr' = [thr EXCEPT ![t].pc = "ustore_assign"]
    /\ UNCHANGED <<cacheRest, mtx, passed, seq, ncalls>>

\* store_unprotected: Cache::store, ... = std::forward<V>(value), and the
\* call returns
store_unprotected_assign(t) ==
    /\ thr[t].pc = "ustore_assign"
    /\ storage' = MapAssign(storage, thr[t].key, thr[t].val)
    /\ seq' = MapPut(seq, thr[t].key, thr[t].val)
    /\ thr' = [thr EXCEPT ![t] = Idle]
    /\ UNCHANGED <<cacheRest, mtx, passed, ncalls>>

\* the thread that calls without the lock, and the threads that store with it
Unlocked == {t \in Threads : t = 1}
Locking == Threads \ Unlocked

NextUnprotected ==
    \/ \E t \in Unlocked, key \in InputKeys :
          ~UnprotectedStoring /\ load_unprotected_call(t, key)
    \/ \E t \in Unlocked : load_unprotected_read(t)
    \/ \E t \in Unlocked : load_unprotected_return(t)
    \/ \E t \in Locking, key \in InputKeys, value \in Values :
          ~UnprotectedStoring /\ store_call(t, key, value)
    \/ \E t \in Locking : store_lock(t)
    \/ \E t \in Locking : store_index(t)
    \/ \E t \in Locking : store_assign(t)
    \/ \E t \in Locking : store_unlock(t)
    \/ \E t \in Unlocked, key \in InputKeys, value \in Values :
          store_unprotected_call(t, key, value)
    \/ \E t \in Unlocked : store_unprotected_index(t)
    \/ \E t \in Unlocked : store_unprotected_assign(t)

SpecUnprotected == InitConc /\ [][NextUnprotected]_vars

\* ------------------------------------------------- a cache file as found
\* the first run of the program finds a cache file of any content
FilesFound == UNION {[1 .. n -> Byte] : n \in 0 .. MaxFileLen}

InitFound ==
    /\ \E bytes \in FilesFound :
          fs = [name \in FileNames |->
                   IF name = get_cache_file_name("First")
                   THEN [exists |-> TRUE, bytes |-> bytes, written |-> <<>>]
                   ELSE NoFile]
    /\ perm = "rw"
    /\ state = "Uninitialized"
    /\ tag = ""
    /\ storage = EmptyMap
    /\ ld = NoLoad
    /\ stored = EmptyMap
    /\ prev = NoPrev
    /\ tornDown = {}
    /\ nops = 0
    /\ InitThreads

NextFound ==
    \/ \E t \in Tags : Cache_ctor(t)
    \/ Cache_dtor

SpecFound == InitFound /\ [][NextFound]_vars

\* ------------------------------------------------------- keys on their own
\* two keys of one shape are made, and BinSize bytes are at hand
InitCodec ==
    /\ fs = [name \in FileNames |-> NoFile]
    /\ perm = "rw"
    /\ state = "Uninitialized"
    /\ tag = ""
    /\ storage = EmptyMap
    /\ ld = NoLoad
    /\ stored = EmptyMap
    /\ prev = NoPrev
    /\ tornDown = {}
    /\ nops = 0
    /\ mtx = [excl |-> {}, shared |-> {}]
    /\ thr = [t \in Threads |-> Idle]
    /\ passed = [k \in InputKeys |-> {}]
    /\ seq = EmptyMap
    /\ ncalls = 0
    /\ avail = TRUE
    /\ snap = EmptyMap
    /\ shape \in Shapes
    /\ ka \in KeysOf(shape)
    /\ kb \in KeysOf(shape)
    /\ buf \in BytesOf(shape)
    /\ probe \in BOOLEAN
    /\ cpc = "made"
    /\ res = NoOut
    /\ tbl = <<>>

keyRest == <<pvars, mtx, thr, passed, seq, ncalls, avail, snap,
             shape, ka, kb, buf, probe>>

\* ka.serialize(), kb.serialize()
Key_serialize ==
    /\ cpc = "made"
    /\ res' = [res EXCEPT !.sa = serialize_as(shape, ka),
                          !.sb = serialize_as(shape, kb)]
    /\ cpc' = "serialized"
    /\ UNCHANGED <<keyRest, tbl>>

\* Dependances::deserialize of ka's bytes and of the bytes at hand
Key_deserialize ==
    /\ cpc = "serialized"
    /\ res' = [res EXCEPT !.da = deserialize_as(shape, res.sa),
                          !.dbuf = deserialize_as(shape, buf)]
    /\ cpc' = "deserialized"
    /\ UNCHANGED <<keyRest, tbl>>

\* the key made of the bytes at hand is serialized
Key_reserialize ==
    /\ cpc = "deserialized"
    /\ res' = [res EXCEPT !.sbuf = serialize_as(shape, res.dbuf)]
    /\ cpc' = "reserialized"
    /\ UNCHANGED <<keyRest, tbl>>

\* std::hash of ka and of kb
Key_hash ==
    /\ cpc = "reserialized"
    /\ res' = [res EXCEPT !.ha = Dependances_hash(shape, ka),
                          !.hb = Dependances_hash(shape, kb)]
    /\ cpc' = "hashed"
    /\ UNCHANGED <<keyRest, tbl>>

\* store(ka, 0) on an empty table
Key_store_a ==
    /\ cpc = "hashed"
    /\ tbl' = umap_store(tbl, shape, ka, 0, probe)
    /\ cpc' = "stored_a"
    /\ UNCHANGED <<keyRest, res>>

\* store(kb, 1)
Key_store_b ==
    /\ cpc = "stored_a"
    /\ tbl' = umap_store(tbl, shape, kb, 1, probe)
    /\ cpc' = "stored_b"
    /\ UNCHANGED <<keyRest, res>>

\* load(ka), load(kb)
Key_load ==
    /\ cpc = "stored_b"
    /\ res' = [res EXCEPT !.la = umap_load(tbl, shape, ka, probe),
                          !.lb = umap_load(tbl, shape, kb, probe)]
    /\ cpc' = "loaded"
    /\ UNCHANGED <<keyRest, tbl>>

NextCodec ==
    \/ Key_serialize
    \/ Key_deserialize
    \/ Key_reserialize
    \/ Key_hash
    \/ Key_store_a
    \/ Key_store_b
    \/ Key_load

SpecCodec == InitCodec /\ [][NextCodec]_vars

\* ------------------------------------------------------------------ claims
\* the cache file of the instance
OwnFile == fs[get_cache_file_name(tag)]

\* the instance has been constructed and no store was made through it
JustConstructed == state \in {"Ready", "Faulted"} /\ stored = EmptyMap

\* the instance was constructed on the file as the instance before it, of the
\* same tag, wrote it
LoadedFromPrev ==
    /\ JustConstructed
    /\ perm = "rw"
    /\ prev.dumped
    /\ prev.tag = tag
    /\ OwnFile.bytes = OwnFile.written

\* C1: after the stores made through an instance that started empty, its
\* teardown and the construction of a new instance on the same file, the new
\* instance holds exactly the stored keys, each with its last stored value.
C1_RoundTrip ==
    (LoadedFromPrev /\ prev.fresh /\ state = "Ready") =>
        /\ DOMAIN storage = DOMAIN prev.stored
        /\ \A k \in DOMAIN prev.stored :
               Cache_load(storage, k) = Some(prev.stored[k])

NothingToLoad == ~OwnFile.exists \/ perm = "wo" \/ Len(OwnFile.bytes) = 0

\* C4: constructed on a missing, unreadable or empty file, the instance is
\* Ready with an empty table, every load returns absent until a store is
\* made, and the construction does not fault.
C4_EmptyStart ==
    /\ (state = "Ready" /\ stored = EmptyMap /\ NothingToLoad) =>
           /\ storage = EmptyMap
           /\ \A k \in Keys : Cache_load(storage, k) = None
    /\ state = "Faulted" => (ld.opened /\ ld.len > 0)

C4_Witness ==
    /\ state = "Ready"
    /\ stored = EmptyMap
    /\ OwnFile.exists
    /\ perm = "rw"
    /\ Len(OwnFile.bytes) = 0
    /\ tag \in tornDown
    /\ storage = EmptyMap

RECURSIVE RecordTable(_, _)
\* the table of the first n records of `bytes`, a record every key_val_size
\* bytes, later records replacing earlier ones of the same key
RecordTable(bytes, n) ==
    IF n = 0 THEN EmptyMap
    ELSE LET at == (n - 1) * key_val_size
         IN  MapPut(RecordTable(bytes, n - 1),
                    Dependances_deserialize(SubSeq(bytes, at + 1, at + BinSize)),
                    Value_deserialize(
                        SubSeq(bytes, at + BinSize + 1, at + key_val_size)))

\* the instance was constructed on a file that a teardown wrote with at least
\* one record and that then lost its last byte
LoadedTruncated ==
    /\ JustConstructed
    /\ ld.opened
    /\ Len(OwnFile.written) >= key_val_size
    /\ ld.len = Len(OwnFile.written) - 1

\* C5: constructed on a file of n >= 1 records that lost its last byte, the
\* loader does not fault and the table holds exactly the first n - 1 records.
C5_Truncated ==
    LoadedTruncated =>
        /\ state = "Ready"
        /\ storage = RecordTable(OwnFile.written,
                                 Len(OwnFile.written) \div key_val_size - 1)

\* C6: on a file of length L > 0 the loader makes floor(L / key_val_size)
\* decode steps and reads no byte at an offset of L or more; on a file shorter
\* than one record it makes no decode step and divides by no zero.
C6_LoadBound ==
    (state \in {"Ready", "Faulted"} /\ ld.opened /\ ld.len > 0) =>
        /\ ld.steps = ld.len \div key_val_size
        /\ ld.steps > 0 => ld.readEnd <= ld.len
        /\ ~ld.divByZero

\* C7: two instances that differ only in their tag have different file names,
\* and an instance whose tag no torn-down instance had starts with an empty
\* table, whatever was stored through instances of another tag.
C7_TagIsolation ==
    /\ \A t1, t2 \in Tags :
          t1 # t2 => get_cache_file_name(t1) # get_cache_file_name(t2)
    /\ (JustConstructed /\ tag \notin tornDown) =>
           (state = "Ready" /\ storage = EmptyMap)

C7_Witness ==
    /\ state = "Ready"
    /\ stored = EmptyMap
    /\ tag \notin tornDown
    /\ prev.tag # tag
    /\ prev.dumped
    /\ prev.stored # EmptyMap
    /\ fs[get_cache_file_name(prev.tag)].bytes # <<>>
    /\ storage = EmptyMap

\* thread t holds the lock of store / of load
InStore(t) == thr[t].pc \in {"store_index", "store_assign", "store_unlock"}
InLoad(t) == thr[t].pc \in {"load_read", "load_unlock"}

\* C8: while a thread is inside the critical section of store, no other
\* thread is inside the critical section of store or of load.
C8_Exclusion ==
    \A t, u \in Threads :
        (t # u /\ InStore(t)) => (~InStore(u) /\ ~InLoad(u))

\* two threads inside the critical section of load at once (reachable: loads
\* share the lock)
C8_ReadersShare ==
    \E t, u \in Threads : t # u /\ InLoad(t) /\ InLoad(u)

C8_Witness ==
    \E t, u \in Threads :
        /\ t # u
        /\ thr[t].pc = "store_assign"
        /\ thr[u].pc = "load_lock"
        /\ thr[u].key = thr[t].key

\* C9: a protected load returns absent or a value that a store call passed
\* for that key, never a value nobody stored.
C9_NoTornRead ==
    \A t \in Threads :
        thr[t].pc = "load_unlock" =>
            \/ thr[t].ret = None
            \/ \E v \in passed[thr[t].key] : thr[t].ret = Some(v)

C9_Witness ==
    \E t, u \in Threads :
        /\ thr[t].pc = "load_unlock"
        /\ thr[t].ret # None
        /\ thr[u].pc = "store_lock"
        /\ thr[u].key # thr[t].key

\* C10: the calls take effect one at a time, each at a step between its call
\* and its return (a store at its assignment, a load at its read): a load
\* returns what the stores that took effect before it leave for its key, and
\* whenever no store holds the lock the table is the one those stores leave.
C10_Linearizable ==
    /\ \A t \in Threads :
          thr[t].pc = "load_unlock" => thr[t].ret = thr[t].lin
    /\ mtx.excl = {} => storage = seq

C10_Witness ==
    \E t \in Threads :
        /\ thr[t].pc = "load_unlock"
        /\ Cardinality(passed[thr[t].key]) = 2
        /\ thr[t].ret = Some(1)
        /\ \A u \in Threads : u # t => thr[u].pc = "idle"

\* C11: once the flag is set to FALSE the table is the one it was at the
\* switch, and every load made without the lock returns, for a key stored
\* before the switch, the value the key had at the switch.
C11_ModeSwitch ==
    /\ ~avail => storage = snap
    /\ \A t \in Threads :
          thr[t].pc = "fast_ret" =>
              \A k \in DOMAIN snap :
                  thr[t].key = k => thr[t].ret = Some(snap[k])

C11_Witness ==
    \E t \in Threads :
        /\ ~avail
        /\ thr[t].pc = "fast_ret"
        /\ thr[t].key \in DOMAIN snap
        /\ thr[t].ret = Some(1)

\* C12: a teardown that can write the file leaves in it exactly one record
\* for every entry of the table, the key then the value, n * key_val_size
\* bytes for n entries, and nothing of what the file held before.
C12_SaveRewrites ==
    [][(Cache_dtor /\ CanWrite(OwnFile)) =>
          LET n == Cardinality(DOMAIN storage)
              bytes == fs'[get_cache_file_name(tag)].bytes
          IN  /\ Len(bytes) = n * key_val_size
              /\ RecordTable(bytes, n) = storage]_vars

C12_Witness ==
    /\ state = "Closed"
    /\ prev.dumped
    /\ ld.len > 0
    /\ storage # EmptyMap
    /\ OwnFile.bytes = OwnFile.written
    /\ Len(OwnFile.bytes) = Cardinality(DOMAIN storage) * key_val_size
    /\ RecordTable(OwnFile.bytes, Cardinality(DOMAIN storage)) = storage

\* the operations on the keys at hand that have been made
Serialized == cpc \notin {"none", "made"}
Reserialized == cpc \notin {"none", "made", "serialized", "deserialized"}
Hashed == Reserialized /\ cpc # "reserialized"

\* C13: two keys of one shape are equal exactly when every slot compares
\* equal, slot by slot in declared order, and two equal keys serialize to the
\* same bytes.
C13_KeyEquality ==
    Serialized =>
        /\ Dependances_eq(shape, ka, kb) <=>
               (SlotEq(shape[1], ka[1], kb[1]) /\ SlotEq(shape[2], ka[2], kb[2]))
        /\ Dependances_eq(shape, ka, kb) => res.sa = res.sb

\* C14: the key deserialized from the bytes of a key k is equal to k, and
\* the key deserialized from any BinSize bytes serializes to those bytes.
C14_RoundTrip ==
    Reserialized =>
        /\ Dependances_eq(shape, res.da, ka)
        /\ res.sbuf = buf

\* C14, amended: the key deserialized from the bytes of a key k has in every
\* slot the representation k has, and is equal to k when no slot of k is a
\* NaN; the key deserialized from any BinSize bytes serializes to those bytes.
C14_RoundTripOfRepresentation ==
    Reserialized =>
        /\ res.da = ka
        /\ (\A j \in 1 .. Len(shape) : ~IsNaN(shape[j], ka[j])) =>
               Dependances_eq(shape, res.da, ka)
        /\ res.sbuf = buf

C14_Witness ==
    /\ cpc = "reserialized"
    /\ IsNaN(shape[2], ka[2])
    /\ ka[1] # ka[2] % ByteBase
    /\ res.da = ka
    /\ buf # res.sa
    /\ res.sbuf = buf

\* C19: the hash of a key is the maximum size_t XORed with the hash of the
\* text of every slot; equal keys have equal hashes; the hash does not change
\* when the values of two slots of one type are swapped; and two unequal keys
\* of one hash are two entries of the table, each loading its own value.
C19_KeyHash ==
    Hashed =>
        /\ res.ha = Xor(Xor(size_t_max,
                            hash_string(to_string(shape[1], ka[1]))),
                        hash_string(to_string(shape[2], ka[2])))
        /\ Dependances_eq(shape, ka, kb) => res.ha = res.hb
        /\ (shape[1] = shape[2] /\ kb = <<ka[2], ka[1]>>) => res.ha = res.hb
        /\ (cpc = "loaded" /\ res.ha = res.hb /\ ~Dependances_eq(shape, ka, kb)) =>
               /\ Len(tbl) = 2
               /\ res.la = Some(0)
               /\ res.lb = Some(1)

\* C20: the bytes of a key are as many as the sizes of its slots add up to,
\* the first slot at offset 0 and the second right behind it, nothing
\* between or behind them; a record splits at that length into the key and
\* the value.
C20_KeyLayout ==
    Serialized =>
        /\ Len(res.sa) = sizeof(shape[1]) + sizeof(shape[2])
        /\ BinSizeOf(shape) = Len(res.sa)
        /\ SubSeq(res.sa, 1, sizeof(shape[1])) = to_bytes(ka[1], sizeof(shape[1]))
        /\ SubSeq(res.sa, sizeof(shape[1]) + 1, Len(res.sa)) =
               to_bytes(ka[2], sizeof(shape[2]))
        /\ \A v \in Values :
               RecordSplit(shape, res.sa \o Value_serialize(v)) =
                   [key |-> ka, value |-> v]

C20_Witness ==
    /\ cpc = "serialized"
    /\ shape = <<"int", "double">>
    /\ ka[1] # 0
    /\ ka[2] % ByteBase # ka[1]
    /\ ka[2] \div ByteBase # ka[2] % ByteBase
    /\ Len(res.sa) = sizeof("int") + sizeof("double")

\* C15: a teardown that cannot open the file for writing still completes,
\* the instance is Closed, nothing faults, and the file is as it was.
C15_WriteFailure ==
    [][(Cache_dtor /\ perm = "ro") =>
          /\ state' = "Closed"
          /\ fs' = fs]_vars

C15_Witness ==
    /\ state = "Closed"
    /\ perm = "ro"
    /\ ~prev.dumped
    /\ storage # EmptyMap
    /\ OwnFile.exists
    /\ OwnFile.bytes # <<>>
    /\ \A order \in Perms(DOMAIN storage) :
          OwnFile.bytes # Cache_serialize(storage, order)

\* C16: constructed on a file of any length L, the loader takes record i,
\* for every i below L \div key_val_size, from the key_val_size bytes at
\* offset key_val_size * i, the key from the first BinSize of them; the step
\* from one record to the next is key_val_size whatever L is.
C16_RecordSlicing ==
    (state = "Ready" /\ stored = EmptyMap /\ ld.opened
         /\ ld.len >= key_val_size) =>
        /\ ld.step = key_val_size
        /\ \A i \in 0 .. (ld.len \div key_val_size) - 1 :
              LET rec == ReadSpan(OwnFile.bytes, <<>>, i * ld.step, key_val_size)
              IN  /\ i * ld.step = key_val_size * i
                  /\ rec = SubSeq(OwnFile.bytes, key_val_size * i + 1,
                                  key_val_size * i + key_val_size)
                  /\ Dependances_deserialize(SubSeq(rec, 1, BinSize))
                         \in DOMAIN ld.loaded

\* C17: an instance goes from Uninitialized through its loading to Ready and
\* from Ready through its saving to Closed, and no other way; the file is
\* read at most once, by the construction, and written exactly once, by the
\* teardown; a store is served only between the two.
C17_Lifecycle ==
    [][/\ (\E t \in Tags : Cache_ctor(t)) =>
              /\ state' = "Ready"
              /\ ld'.reads <= 1
              /\ fs' = fs
       /\ Cache_dtor =>
              /\ state = "Ready"
              /\ state' = "Closed"
              /\ ld' = ld
              /\ prev'.dumped
              /\ fs'[get_cache_file_name(tag)].bytes
                     = fs'[get_cache_file_name(tag)].written
       /\ (\E key \in InputKeys, value \in Values : Store(key, value)) =>
              /\ state = "Ready"
              /\ state' = "Ready"
              /\ fs' = fs
              /\ ld' = ld
       /\ state' # state =>
              \/ (\E t \in Tags : Cache_ctor(t))
              \/ Cache_dtor]_vars

\* C18: load_unprotected changes nothing of the lock and never waits for it;
\* made while no thread is changing the table it returns what load returns,
\* Cache::load of the table as it is; store_unprotected made while no other
\* call is under way leaves the table store would leave, Cache::store of the
\* table as it was.
C18_UnprotectedPaths ==
    /\ [](\A t \in Threads :
             thr[t].pc = "fast_read" => ENABLED load_unprotected_read(t))
    /\ [][\A t \in Threads :
             /\ (\/ (\E key \in InputKeys : load_unprotected_call(t, key))
                 \/ load_unprotected_read(t)
                 \/ load_unprotected_return(t)) => mtx' = mtx
             /\ (load_unprotected_read(t) /\ ~Storing) =>
                    /\ thr'[t].ret = Cache_load(storage, thr[t].key)
                    /\ thr'[t].ret = thr'[t].lin
             /\ (store_unprotected_assign(t) /\ AloneInCall(t)) =>
                    /\ storage' = Cache_store(storage, thr[t].key, thr[t].val)
                    /\ storage' = seq']_vars

C18_Witness ==
    \E t, u \in Threads :
        /\ thr[t].pc = "fast_ret"
        /\ thr[t].ret = Some(1)
        /\ thr[u].pc = "store_unlock"
        /\ thr[u].key # thr[t].key
        /\ mtx.excl = {u}

\* C21: the steps of a load leave the table as it is; the steps of a store of
\* key k leave every other key as present or absent as it was, with the value
\* it had; no step removes an entry, and a key a load found present is
\* present from then on.
C21_Frame ==
    /\ [](\A t \in Threads :
             (thr[t].pc = "load_unlock" /\ thr[t].ret # None) =>
                 thr[t].key \in DOMAIN storage)
    /\ [][/\ \A t \in Threads :
                 (\/ (\E key \in InputKeys : load_call(t, key))
                  \/ load_lock(t)
                  \/ load_read(t)
                  \/ load_unlock(t)) => storage' = storage
          /\ \A t \in Threads :
                 (\/ (\E key \in InputKeys, value \in Values :
                          store_call(t, key, value))
                  \/ store_lock(t)
                  \/ store_index(t)
                  \/ store_assign(t)
                  \/ store_unlock(t)) =>
                     \A k \in Keys \ {thr'[t].key} :
                         Cache_load(storage', k) = Cache_load(storage, k)
          /\ \A k \in DOMAIN storage : Cache_load(storage', k) # None]_vars

C21_Witness ==
    \E t \in Threads :
        /\ thr[t].pc = "load_unlock"
        /\ thr[t].ret = Some(1)
        /\ Cardinality(DOMAIN storage) = 2
        /\ \A u \in Threads : u # t => thr[u].pc = "idle"

\* C22: the lock is held by exactly the threads inside the critical section
\* of a load or store, so it is free whenever no call is under way; a thread
\* that waits for the lock holds none; and every call that was started
\* returns.
C22_LockProgress ==
    /\ [](/\ mtx.shared = {t \in Threads : InLoad(t)}
          /\ mtx.excl = {t \in Threads : InStore(t)}
          /\ (\A t \in Threads : thr[t].pc = "idle") =>
                 (mtx.shared = {} /\ mtx.excl = {})
          /\ \A t \in Threads :
                 thr[t].pc \in {"load_lock", "store_lock"} =>
                     t \notin (mtx.shared \cup mtx.excl))
    /\ \A t \in Threads : (thr[t].pc # "idle") ~> (thr[t].pc = "idle")

C22_Witness ==
    \E t, u \in Threads :
        /\ thr[t].pc = "store_lock"
        /\ thr[u].pc = "load_unlock"
        /\ mtx.shared = {u}
        /\ ~CanLockUnique(mtx)


\* the file of the instance as its teardown leaves it, read as a table
FileLeft ==
    LET bytes == fs'[get_cache_file_name(tag)].bytes
    IN  RecordTable(bytes, Len(bytes) \div key_val_size)

\* the instance being torn down is the second of two runs on one file: the run
\* before it started empty and wrote the file, nothing touched the file in
\* between, and this run read it at construction
SecondRun ==
    /\ perm = "rw"
    /\ prev.dumped
    /\ prev.fresh
    /\ prev.tag = tag
    /\ ld.opened
    /\ OwnFile.bytes = OwnFile.written

\* C23: over runs of one instance at a time on the same file, the file left
\* by a run holds exactly the keys stored in any run so far, each with the
\* value of its most recent store, and an entry loaded at construction and
\* not stored again is written back unchanged at teardown.
C23_Accumulation ==
    [][(Cache_dtor /\ SecondRun) =>
          /\ DOMAIN FileLeft = DOMAIN prev.stored \cup DOMAIN stored
          /\ \A k \in DOMAIN stored :
                 Cache_load(FileLeft, k) = Some(LastOf(stored)[k])
          /\ \A k \in DOMAIN prev.stored \ DOMAIN stored :
                 Cache_load(FileLeft, k) = Some(prev.stored[k])
          /\ \A k \in DOMAIN ld.loaded \ DOMAIN stored :
                 Cache_load(FileLeft, k) = Cache_load(ld.loaded, k)]_vars

====
